---- MODULE Spec2Model ----
(***************************************************************************)
(* Command dispatch, the unacknowledged-write path and the change-stream   *)
(* resume state machine of mongo-go-driver.                                *)
(*                                                                         *)
(*   mongo/change_stream.go               changeStream                     *)
(*   core/dispatch/find_one_and_update.go FindOneAndUpdate                 *)
(*   core/dispatch/{command,find,list_indexes,aggregate}.go                *)
(*                                                                         *)
(* Collaborators (topology, connections, cursors, round trips) are the     *)
(* environment: every call to one of them draws its outcome from the set   *)
(* of outcomes the collaborator can produce.                               *)
(***************************************************************************)
EXTENDS Integers, Sequences, FiniteSets, TLC

VARIABLES
    pipeline,       \* changeStream.pipeline: <<$changeStream stage>> \o caller stages
    options,        \* changeStream.options
    cursor,         \* changeStream.cursor (NilCursor when the interface is nil)
    resumeToken,    \* changeStream.resumeToken (NoToken when nil)
    err,            \* changeStream.err
    conns,          \* every connection handed out so far, by id
    tasks,          \* the detached goroutines of unacknowledged writes
    crashed,        \* an unrecovered panic left a goroutine: the process is gone
    args,           \* the arguments of the last call
    ret,            \* what the last call returned to its caller
    log,            \* the collaborator calls the last call made, in order
    lastDecodedId   \* history: _id of the last document DecodeBytes produced

vars == <<pipeline, options, cursor, resumeToken, err, conns, tasks, crashed,
          args, ret, log, lastDecodedId>>

csVars == <<pipeline, options, cursor, resumeToken, err, lastDecodedId>>

(***************************************************************************)
(* Bounds                                                                  *)
(***************************************************************************)
MaxConns == 1       \* connections handed out in one behaviour

\* resume tokens are opaque documents: two distinct ones tell the latest from an earlier one
Tokens == {1, 2}
NoToken == 0
NoServer == "none"
Servers == {"s1", "s2"}

(***************************************************************************)
(* Errors                                                                  *)
(***************************************************************************)
errorCodeNotMaster == 10107
errorCodeCursorNotFound == 43

\* a server error code that is neither of the two above
OtherCodes == {11600}

NoErr == [kind |-> "nil", code |-> 0]
CommandError(code) == [kind |-> "command.Error", code |-> code]
NetworkError == [kind |-> "network", code |-> 0]
DecodeError == [kind |-> "decode", code |-> 0]
SelectionError == [kind |-> "selection", code |-> 0]
ConnectionError == [kind |-> "connection", code |-> 0]
RoundTripError == [kind |-> "roundtrip", code |-> 0]
ErrMissingResumeToken == [kind |-> "ErrMissingResumeToken", code |-> 0]
ErrUnacknowledgedWrite == [kind |-> "ErrUnacknowledgedWrite", code |-> 0]
WriteConcernError == [kind |-> "writeconcern", code |-> 0]
ReadConcernError == [kind |-> "readconcern", code |-> 0]
ReadPrefUsageError == [kind |-> "readpref in transaction", code |-> 0]
SessionError == [kind |-> "session", code |-> 0]
PanicValue == [kind |-> "panic", code |-> 0]

\* the terminal errors a cursor can report from Err()
CursorErrors ==
    {CommandError(c) : c \in {errorCodeNotMaster, errorCodeCursorNotFound} \cup OtherCodes}
        \cup {NetworkError}

(***************************************************************************)
(* Documents, cursors                                                      *)
(***************************************************************************)
NoDoc == [present |-> FALSE, hasId |-> FALSE, id |-> NoToken]
Doc(t) == [present |-> TRUE, hasId |-> TRUE, id |-> t]
DocWithoutId == [present |-> TRUE, hasId |-> FALSE, id |-> NoToken]
Docs == {Doc(t) : t \in Tokens} \cup {DocWithoutId}

NilCursor == [nil |-> TRUE, id |-> 0, srv |-> NoServer, cur |-> NoDoc, err |-> NoErr, closed |-> FALSE]
NewCursor(id, srv) ==
    [nil |-> FALSE, id |-> id, srv |-> srv, cur |-> NoDoc, err |-> NoErr, closed |-> FALSE]

\* Cursor.Next(ctx): the outcomes of one advance, each with the cursor it leaves
CursorNext(c) ==
    {[val |-> TRUE, cursor |-> [c EXCEPT !.cur = d, !.err = NoErr]] : d \in Docs}
        \cup {[val |-> FALSE, cursor |-> [c EXCEPT !.cur = NoDoc, !.err = NoErr]]}
        \cup {[val |-> FALSE, cursor |-> [c EXCEPT !.cur = NoDoc, !.err = e]] : e \in CursorErrors}

\* Cursor.DecodeBytes(): the current document, or an error
CursorDecodeBytes(c) ==
    {[doc |-> NoDoc, err |-> DecodeError]}
        \cup (IF c.cur.present THEN {[doc |-> c.cur, err |-> NoErr]} ELSE {})

(***************************************************************************)
(* Options and the $changeStream stage                                     *)
(***************************************************************************)
OptResumeAfter(t) == [name |-> "resumeAfter", val |-> t]
OptFullDocument == [name |-> "fullDocument", val |-> 0]
OptBatchSize == [name |-> "batchSize", val |-> 0]

IsOptResumeAfter(opt) == opt.name = "resumeAfter"

\* opt.Option(d): OptResumeAfter appends nothing for a nil token
Option(opt, d) ==
    IF IsOptResumeAfter(opt) /\ opt.val = NoToken THEN d ELSE Append(d, opt)

RECURSIVE ApplyOptions(_, _)
ApplyOptions(opts, d) ==
    IF opts = <<>> THEN d ELSE ApplyOptions(Tail(opts), Option(Head(opts), d))

\* bson document {"$changeStream": changeStreamOptions}
ChangeStreamStage(opts) == [stage |-> "$changeStream", doc |-> ApplyOptions(opts, <<>>)]
UserStage(n) == [stage |-> n, doc |-> <<>>]

\* index of the first OptResumeAfter in opts, 0 when there is none
FirstResumeAfter(opts) ==
    IF \E i \in 1..Len(opts) : IsOptResumeAfter(opts[i])
    THEN CHOOSE i \in 1..Len(opts) :
            /\ IsOptResumeAfter(opts[i])
            /\ \A j \in 1..(i - 1) : ~IsOptResumeAfter(opts[j])
    ELSE 0

\* SetResumeAfter appending a new resume directive whether or not the list has one
SetResumeAfterAppending(opts, token) == Append(opts, OptResumeAfter(token))

\* change_stream.go 102-115: replace the first resume directive, or append one
SetResumeAfter(opts, token) ==
    LET i == FirstResumeAfter(opts) IN
    IF i # 0 THEN [opts EXCEPT ![i] = OptResumeAfter(token)]
    ELSE Append(opts, OptResumeAfter(token))

\* GoesOnToResume with the cursor-not-found code forgotten
GoesOnToResumeNotMasterOnly(e) ==
    ~(e.kind = "command.Error" /\ e.code # errorCodeNotMaster)

\* change_stream.go 95-100: does Next go on to the resume code for this error?
\* Only a command.Error with another code returns; every other error type falls
\* through the type switch.
GoesOnToResume(e) ==
    ~(e.kind = "command.Error"
        /\ e.code # errorCodeNotMaster /\ e.code # errorCodeCursorNotFound)

(***************************************************************************)
(* Log entries and return values                                           *)
(***************************************************************************)
Call(name, srv, conn, cur, e) ==
    [call |-> name, srv |-> srv, conn |-> conn, cur |-> cur, err |-> e, opts |-> <<>>]

\* a round trip of a command carrying option list opts
CallCmd(name, srv, conn, opts, e) ==
    [call |-> name, srv |-> srv, conn |-> conn, cur |-> 0, err |-> e, opts |-> opts]

\* the arguments of a dispatch call that the model distinguishes
Args(opts, wc, dollarOut, session, readPref, rc) ==
    [opts |-> opts, wc |-> wc, dollarOut |-> dollarOut, session |-> session,
     readPref |-> readPref, rc |-> rc]
NoArgs == Args(<<>>, "nil", FALSE, "nil", "nil", "nil")

Ret(op, val, e, doc) == [op |-> op, val |-> val, err |-> e, doc |-> doc]

\* a connection: who owns it, how often it was closed and by whom
Conn(owner) == [owner |-> owner, closes |-> 0, closedBy |-> {}]
CloseConn(c, who) == [c EXCEPT !.closes = @ + 1, !.closedBy = @ \cup {who}]

(***************************************************************************)
(* Initial state: newChangeStream has returned a stream (change_stream.go  *)
(* 36-74); no dispatch call has been made.                                 *)
(***************************************************************************)
InitStreams ==
    { [opts |-> <<OptFullDocument>>, stages |-> <<>>],
      [opts |-> <<OptBatchSize, OptResumeAfter(1), OptFullDocument>>,
       stages |-> <<UserStage("$match"), UserStage("$project")>>] }

\* change_stream.go 49-71
newChangeStream(opts, stages, srv) ==
    [pipeline |-> <<ChangeStreamStage(opts)>> \o stages,
     options |-> opts,
     cursor |-> NewCursor(1, srv),
     resumeToken |-> NoToken,
     err |-> NoErr]

Init ==
    /\ \E st \in InitStreams :
          LET cs == newChangeStream(st.opts, st.stages, "s1") IN
          /\ pipeline = cs.pipeline
          /\ options = cs.options
          /\ cursor = cs.cursor
          /\ resumeToken = cs.resumeToken
          /\ err = cs.err
    /\ conns = <<>>
    /\ tasks = <<>>
    /\ crashed = FALSE
    /\ args = NoArgs
    /\ ret = Ret("new", TRUE, NoErr, NoDoc)
    /\ log = <<>>
    /\ lastDecodedId = NoToken

(***************************************************************************)
(* changeStream.Next (change_stream.go 80-165)                             *)
(***************************************************************************)
\* the stream as one call leaves it, with what the call returned and did
Outcome(pl, opts, c, e, cns, r, lg) ==
    [pipeline |-> pl, options |-> opts, cursor |-> c, err |-> e, conns |-> cns,
     ret |-> r, log |-> lg]

NextRet(val) == Ret("Next", val, NoErr, NoDoc)
NextPanic == Ret("Next", FALSE, PanicValue, NoDoc)

\* RewriteFirstStage putting a new $changeStream stage in front of the pipeline
RewriteFirstStagePrepending(pl, opts) == <<ChangeStreamStage(opts)>> \o pl

\* lines 140-150: the options document is rebuilt from the option list and
\* cs.pipeline.Set(0, ...) overwrites the first stage
RewriteFirstStage(pl, opts) == [pl EXCEPT ![1] = ChangeStreamStage(opts)]

\* lines 136-164, on connection cid to server s: the deferred conn.Close() runs
\* on every way out, killCursors' result is dropped, the first stage is rewritten,
\* the aggregate's cursor and error are stored and the new cursor is advanced once.
ResumeOnConnection(c1, opts1, s, cid, lg) ==
    LET pl == RewriteFirstStage(pipeline, opts1)
        closed == Append(conns, CloseConn(Conn("resume"), "resume"))
        killed(k) == Append(lg, Call("killCursors", s, cid, c1.id, k))
        agg(k, e) == Append(killed(k), CallCmd("aggregate", s, cid, pl[1].doc, e))
    IN
    UNION {
        {Outcome(pl, opts1, c1, err, closed, NextPanic, agg(k, PanicValue)),
         Outcome(pl, opts1, NilCursor, RoundTripError, closed, NextRet(FALSE),
                 agg(k, RoundTripError))}
        \cup {Outcome(pl, opts1, o.cursor, NoErr, closed, NextRet(o.val),
                      Append(agg(k, NoErr),
                             Call("cursor.Next", s, 0, cid + 1, o.cursor.err)))
                 : o \in CursorNext(NewCursor(cid + 1, s))}
        : k \in {NoErr, RoundTripError}}

\* lines 102-135: the resume directive goes into the option list, then a server is
\* selected under the read selector and a connection is taken from it
Resume(c1, lg) ==
    LET opts1 == SetResumeAfter(options, resumeToken)
        cid == Len(conns) + 1
        sel(s, e) == Append(lg, Call("SelectServer(readSelector)", s, 0, 0, e))
    IN
    {Outcome(pipeline, opts1, c1, SelectionError, conns, NextRet(FALSE),
             sel(NoServer, SelectionError))}
    \cup UNION {
        {Outcome(pipeline, opts1, c1, ConnectionError, conns, NextRet(FALSE),
                 Append(sel(s, NoErr), Call("Connection", s, 0, 0, ConnectionError)))}
        \cup (IF cid <= MaxConns
              THEN ResumeOnConnection(c1, opts1, s, cid,
                        Append(sel(s, NoErr), Call("Connection", s, cid, 0, NoErr)))
              ELSE {})
        : s \in Servers}

\* lines 86-100, after cs.cursor.Next(ctx) returned o
AfterAdvance(o) ==
    LET c1 == o.cursor
        lg1 == <<Call("cursor.Next", c1.srv, 0, c1.id, NoErr)>>
        lg2 == Append(lg1, Call("cursor.Err", c1.srv, 0, c1.id, c1.err))
    IN
    IF o.val THEN {Outcome(pipeline, options, c1, err, conns, NextRet(TRUE), lg1)}
    ELSE IF c1.err = NoErr
            THEN {Outcome(pipeline, options, c1, err, conns, NextRet(FALSE), lg2)}
    ELSE IF ~GoesOnToResume(c1.err)
            THEN {Outcome(pipeline, options, c1, err, conns, NextRet(FALSE), lg2)}
    ELSE Resume(c1, lg2)

NextOutcomes ==
    IF cursor.nil
    THEN {Outcome(pipeline, options, cursor, err, conns, NextPanic, <<>>)}
    ELSE UNION {AfterAdvance(o) : o \in CursorNext(cursor)}

ChangeStreamNext ==
    /\ ~crashed
    /\ \E r \in NextOutcomes :
          /\ pipeline' = r.pipeline
          /\ options' = r.options
          /\ cursor' = r.cursor
          /\ err' = r.err
          /\ conns' = r.conns
          /\ ret' = r.ret
          /\ log' = r.log
    /\ UNCHANGED <<resumeToken, lastDecodedId, tasks, crashed>>
    /\ args' = NoArgs

(***************************************************************************)
(* changeStream.DecodeBytes / Decode (change_stream.go 167-191)            *)
(***************************************************************************)
Decoded(c, token, r, lg) == [cursor |-> c, resumeToken |-> token, ret |-> r, log |-> lg]

\* Cursor.Close(ctx): the cursor has been closed; the call may report an error
CursorClose(c) == {[cursor |-> [c EXCEPT !.closed = TRUE], err |-> e] : e \in {NoErr, NetworkError}}

\* DecodeBytesOf storing the looked-up _id before testing the lookup's error
DecodeBytesOfStoringFirst(op, br, lg) ==
    IF ~br.hasId
    THEN {Decoded(k.cursor, NoToken, Ret(op, FALSE, ErrMissingResumeToken, NoDoc),
                  Append(lg, Call("cursor.Close", cursor.srv, 0, cursor.id, k.err)))
             : k \in CursorClose(cursor)}
    ELSE {Decoded(cursor, br.id, Ret(op, TRUE, NoErr, br), lg)}

\* DecodeBytesOf returning ErrMissingResumeToken without closing the stream
DecodeBytesOfWithoutClose(op, br, lg) ==
    IF ~br.hasId
    THEN {Decoded(cursor, resumeToken, Ret(op, FALSE, ErrMissingResumeToken, NoDoc), lg)}
    ELSE {Decoded(cursor, br.id, Ret(op, TRUE, NoErr, br), lg)}

\* lines 182-190, for the reader br that cs.cursor.DecodeBytes() returned
DecodeBytesOf(op, br, lg) ==
    IF ~br.hasId
    THEN {Decoded(k.cursor, resumeToken, Ret(op, FALSE, ErrMissingResumeToken, NoDoc),
                  Append(lg, Call("cursor.Close", cursor.srv, 0, cursor.id, k.err)))
             : k \in CursorClose(cursor)}
    ELSE {Decoded(cursor, br.id, Ret(op, TRUE, NoErr, br), lg)}

\* lines 176-191
DecodeBytesOutcomes(op) ==
    IF cursor.nil
    THEN {Decoded(cursor, resumeToken, Ret(op, FALSE, PanicValue, NoDoc), <<>>)}
    ELSE UNION {
        LET lg == <<Call("cursor.DecodeBytes", cursor.srv, 0, cursor.id, b.err)>> IN
        IF b.err # NoErr
        THEN {Decoded(cursor, resumeToken, Ret(op, FALSE, b.err, NoDoc), lg)}
        ELSE DecodeBytesOf(op, b.doc, lg)
        : b \in CursorDecodeBytes(cursor)}

\* the _id of the document a decode handed back, or the one before it
LastDecoded(r) == IF r.doc.present THEN r.doc.id ELSE lastDecodedId

DecodeBytes ==
    /\ ~crashed
    /\ \E r \in DecodeBytesOutcomes("DecodeBytes") :
          /\ cursor' = r.cursor
          /\ resumeToken' = r.resumeToken
          /\ ret' = r.ret
          /\ log' = r.log
          /\ lastDecodedId' = LastDecoded(r.ret)
    /\ UNCHANGED <<pipeline, options, err, conns, tasks, crashed>>
    /\ args' = NoArgs

\* lines 167-174: DecodeBytes, then the reader is unmarshalled into out, which can
\* fail after the resume token has been stored (ret.doc is the reader either way)
Decode ==
    /\ ~crashed
    /\ \E r \in DecodeBytesOutcomes("Decode") :
          /\ cursor' = r.cursor
          /\ resumeToken' = r.resumeToken
          /\ log' = r.log
          /\ lastDecodedId' = LastDecoded(r.ret)
          /\ \/ ret' = r.ret
             \/ /\ r.ret.err = NoErr
                /\ ret' = Ret("Decode", FALSE, DecodeError, r.ret.doc)
    /\ UNCHANGED <<pipeline, options, err, conns, tasks, crashed>>
    /\ args' = NoArgs

(***************************************************************************)
(* changeStream.Err, Close, ID (change_stream.go 76-78, 193-203)           *)
(***************************************************************************)
\* lines 193-199
ErrOf(e, c) ==
    IF e # NoErr THEN Ret("Err", TRUE, e, NoDoc)
    ELSE IF c.nil THEN Ret("Err", FALSE, PanicValue, NoDoc)
    ELSE Ret("Err", TRUE, c.err, NoDoc)

Err ==
    /\ ~crashed
    /\ ret' = ErrOf(err, cursor)
    /\ log' = IF err = NoErr /\ ~cursor.nil
              THEN <<Call("cursor.Err", cursor.srv, 0, cursor.id, cursor.err)>>
              ELSE <<>>
    /\ UNCHANGED <<csVars, conns, tasks, crashed>>
    /\ args' = NoArgs

\* lines 201-203
Close ==
    /\ ~crashed
    /\ IF cursor.nil
       THEN /\ ret' = Ret("Close", FALSE, PanicValue, NoDoc)
            /\ log' = <<>>
            /\ UNCHANGED cursor
       ELSE \E k \in CursorClose(cursor) :
            /\ cursor' = k.cursor
            /\ ret' = Ret("Close", TRUE, k.err, NoDoc)
            /\ log' = <<Call("cursor.Close", cursor.srv, 0, cursor.id, k.err)>>
    /\ UNCHANGED <<pipeline, options, resumeToken, err, lastDecodedId, conns, tasks, crashed>>
    /\ args' = NoArgs

\* lines 76-78
ID ==
    /\ ~crashed
    /\ IF cursor.nil
       THEN /\ ret' = Ret("ID", FALSE, PanicValue, NoDoc)
            /\ log' = <<>>
       ELSE /\ ret' = Ret("ID", TRUE, NoErr, NoDoc)
            /\ log' = <<Call("cursor.ID", cursor.srv, 0, cursor.id, NoErr)>>
    /\ UNCHANGED <<csVars, conns, tasks, crashed>>
    /\ args' = NoArgs

(***************************************************************************)
(* dispatch.Command, ListIndexes, Find, Aggregate                          *)
(***************************************************************************)
Called(cns, tks, r, lg) == [conns |-> cns, tasks |-> tks, ret |-> r, log |-> lg]

\* what a RoundTrip call can do: return a result, return an error, or panic
RoundTripResults == {NoErr, RoundTripError, PanicValue}

\* ConnectRoundTrip asking the server for a connection a second time when the first
\* request failed
ConnectRoundTripRetrying(op, s, opts, lg) ==
    LET cid == Len(conns) + 1
        lgf == Append(lg, Call("Connection", s, 0, 0, ConnectionError))
    IN
    {Called(conns, tasks, Ret(op, FALSE, ConnectionError, NoDoc),
            Append(lgf, Call("Connection", s, 0, 0, ConnectionError)))}
    \cup (IF cid > MaxConns THEN {}
          ELSE {Called(Append(conns, CloseConn(Conn("call"), "call")), tasks,
                       Ret(op, e = NoErr, e, NoDoc),
                       Append(Append(lg, Call("Connection", s, cid, 0, NoErr)),
                              CallCmd("RoundTrip", s, cid, opts, e)))
                   : e \in RoundTripResults}
               \cup {Called(Append(conns, CloseConn(Conn("call"), "call")), tasks,
                            Ret(op, e = NoErr, e, NoDoc),
                            Append(Append(lgf, Call("Connection", s, cid, 0, NoErr)),
                                   CallCmd("RoundTrip", s, cid, opts, e)))
                        : e \in RoundTripResults})

\* conn, err := ss.Connection(ctx); if err != nil { return nil, err };
\* defer conn.Close(); return cmd.RoundTrip(...)
\* (command.go 36-42, list_indexes.go 27-33, find.go 49-57)
ConnectRoundTrip(op, s, opts, lg) ==
    LET cid == Len(conns) + 1 IN
    {Called(conns, tasks, Ret(op, FALSE, ConnectionError, NoDoc),
            Append(lg, Call("Connection", s, 0, 0, ConnectionError)))}
    \cup (IF cid > MaxConns THEN {}
          ELSE {Called(Append(conns, CloseConn(Conn("call"), "call")), tasks,
                       Ret(op, e = NoErr, e, NoDoc),
                       Append(Append(lg, Call("Connection", s, cid, 0, NoErr)),
                              CallCmd("RoundTrip", s, cid, opts, e)))
                   : e \in RoundTripResults})

SelectServer(selector, s, e) == <<Call("SelectServer(" \o selector \o ")", s, 0, 0, e)>>

\* command.go 31-42
CommandOutcomes ==
    {Called(conns, tasks, Ret("Command", FALSE, SelectionError, NoDoc),
            SelectServer("selector", NoServer, SelectionError))}
    \cup UNION {ConnectRoundTrip("Command", s, <<>>, SelectServer("selector", s, NoErr))
                   : s \in Servers}

\* list_indexes.go 22-33
ListIndexesOutcomes ==
    {Called(conns, tasks, Ret("ListIndexes", FALSE, SelectionError, NoDoc),
            SelectServer("selector", NoServer, SelectionError))}
    \cup UNION {ConnectRoundTrip("ListIndexes", s, <<>>, SelectServer("selector", s, NoErr))
                   : s \in Servers}

\* the rc argument of Find: nil, a read concern, or one readConcernOption rejects
ReadConcerns == {"nil", "local", "invalid"}
OptReadConcern(rc) == [name |-> "readConcern", val |-> rc, Acknowledged |-> TRUE]

\* find.go 32-57
FindOutcomes(rc) ==
    {Called(conns, tasks, Ret("Find", FALSE, SelectionError, NoDoc),
            SelectServer("selector", NoServer, SelectionError))}
    \cup UNION {
        IF rc = "invalid"
        THEN {Called(conns, tasks, Ret("Find", FALSE, ReadConcernError, NoDoc),
                     Append(SelectServer("selector", s, NoErr),
                            Call("readConcernOption", s, 0, 0, ReadConcernError)))}
        ELSE ConnectRoundTrip("Find", s,
                              IF rc = "nil" THEN <<>> ELSE <<OptReadConcern(rc)>>,
                              SelectServer("selector", s, NoErr))
        : s \in Servers}

\* the Aggregate calls told apart: a $out stage or not, the command's session (none,
\* an explicit one, an explicit one inside a transaction) and its read preference
AggregateArgs ==
    { Args(<<>>, "nil", FALSE, "nil", "primary", "nil"),
      Args(<<>>, "nil", TRUE, "nil", "primary", "nil"),
      Args(<<>>, "nil", FALSE, "explicit", "secondary", "nil"),
      Args(<<>>, "nil", FALSE, "transaction", "primary", "nil"),
      Args(<<>>, "nil", FALSE, "transaction", "secondary", "nil"),
      Args(<<>>, "nil", TRUE, "transaction", "secondary", "nil") }

\* getReadPrefBasedOnTransaction: inside a transaction only a primary read
\* preference is accepted
ReadPrefError(a) ==
    IF a.session = "transaction" /\ a.readPref # "primary" THEN ReadPrefUsageError ELSE NoErr

\* the session a command carries when it is sent
CmdSession(sess) == <<[name |-> "session", val |-> sess, Acknowledged |-> TRUE]>>

\* AggregateOn starting an implicit session whether or not the command carries one
AggregateOnAlwaysImplicit(a, s, lg) ==
    LET cid == Len(conns) + 1
        lgc == Append(lg, Call("Connection", s, cid, 0, NoErr))
        closed == Append(conns, CloseConn(Conn("call"), "call"))
        aggErr(e) == Ret("Aggregate", FALSE, e, NoDoc)
        supports(b) == Append(lgc, Call(IF b THEN "SupportsSessions=true"
                                             ELSE "SupportsSessions=false", s, 0, 0, NoErr))
        rt(l, sess) == {Called(closed, tasks, Ret("Aggregate", e = NoErr, e, NoDoc),
                               Append(l, CallCmd("RoundTrip", s, cid, CmdSession(sess), e)))
                           : e \in RoundTripResults}
    IN
    {Called(conns, tasks, aggErr(ConnectionError),
            Append(lg, Call("Connection", s, 0, 0, ConnectionError)))}
    \cup (IF cid > MaxConns THEN {}
          ELSE IF ReadPrefError(a) # NoErr
          THEN {Called(closed, tasks, aggErr(ReadPrefError(a)), lgc)}
          ELSE rt(supports(FALSE), a.session)
               \cup rt(Append(supports(TRUE), Call("NewClientSession", s, 0, 0, NoErr)),
                       "implicit")
               \cup {Called(closed, tasks, aggErr(SessionError),
                            Append(supports(TRUE),
                                   Call("NewClientSession", s, 0, 0, SessionError)))})

\* aggregate.go 66-93, on server s
AggregateOn(a, s, lg) ==
    LET cid == Len(conns) + 1
        lgc == Append(lg, Call("Connection", s, cid, 0, NoErr))
        closed == Append(conns, CloseConn(Conn("call"), "call"))
        aggErr(e) == Ret("Aggregate", FALSE, e, NoDoc)
        \* topo.SupportsSessions() is asked only when cmd.Session == nil
        supports(b) == Append(lgc, Call(IF b THEN "SupportsSessions=true"
                                             ELSE "SupportsSessions=false", s, 0, 0, NoErr))
        rt(l, sess) == {Called(closed, tasks, Ret("Aggregate", e = NoErr, e, NoDoc),
                               Append(l, CallCmd("RoundTrip", s, cid, CmdSession(sess), e)))
                           : e \in RoundTripResults}
    IN
    {Called(conns, tasks, aggErr(ConnectionError),
            Append(lg, Call("Connection", s, 0, 0, ConnectionError)))}
    \cup (IF cid > MaxConns THEN {}
          ELSE IF ReadPrefError(a) # NoErr
          THEN {Called(closed, tasks, aggErr(ReadPrefError(a)), lgc)}
          ELSE IF a.session # "nil" THEN rt(lgc, a.session)
          ELSE rt(supports(FALSE), "nil")
               \cup rt(Append(supports(TRUE), Call("NewClientSession", s, 0, 0, NoErr)),
                       "implicit")
               \cup {Called(closed, tasks, aggErr(SessionError),
                            Append(supports(TRUE),
                                   Call("NewClientSession", s, 0, 0, SessionError)))})

\* AggregateOutcomes selecting under the read selector whatever the pipeline holds
AggregateOutcomesReadSelector(a) ==
    {Called(conns, tasks, Ret("Aggregate", FALSE, SelectionError, NoDoc),
            SelectServer("readSelector", NoServer, SelectionError))}
    \cup UNION {AggregateOn(a, s, SelectServer("readSelector", s, NoErr)) : s \in Servers}

\* aggregate.go 39-93
AggregateOutcomes(a) ==
    LET selector == IF a.dollarOut THEN "writeSelector" ELSE "readSelector" IN
    {Called(conns, tasks, Ret("Aggregate", FALSE, SelectionError, NoDoc),
            SelectServer(selector, NoServer, SelectionError))}
    \cup UNION {AggregateOn(a, s, SelectServer(selector, s, NoErr)) : s \in Servers}

Return(a, r) ==
    /\ ~crashed
    /\ args' = a
    /\ conns' = r.conns
    /\ tasks' = r.tasks
    /\ ret' = r.ret
    /\ log' = r.log
    /\ UNCHANGED <<csVars, crashed>>

Command == \E r \in CommandOutcomes : Return(NoArgs, r)

ListIndexes == \E r \in ListIndexesOutcomes : Return(NoArgs, r)

Find ==
    \E rc \in ReadConcerns :
        \E r \in FindOutcomes(rc) :
            Return(Args(<<>>, "nil", FALSE, "nil", "nil", rc), r)

Aggregate == \E a \in AggregateArgs : \E r \in AggregateOutcomes(a) : Return(a, r)

(***************************************************************************)
(* dispatch.FindOneAndUpdate (core/dispatch/find_one_and_update.go)        *)
(***************************************************************************)
OptWriteConcern(w) == [name |-> "writeConcern", val |-> w, Acknowledged |-> (w # "w0")]
OptUpsert == [name |-> "upsert", val |-> "true", Acknowledged |-> TRUE]
IsOptWriteConcern(opt) == opt.name = "writeConcern"

\* the option lists a caller puts in cmd.Opts
CommandOpts ==
    { <<OptUpsert>>, <<OptUpsert, OptWriteConcern("w0")>>,
      <<OptWriteConcern("w1"), OptUpsert>> }

\* the wc argument: nil, an unacknowledged or an acknowledged write concern, or one
\* that writeConcernOption rejects
WriteConcerns == {"nil", "w0", "w1", "invalid"}

\* lines 39-47: the override, when given, is appended to cmd.Opts
AppendWriteConcern(opts, wc) ==
    IF wc = "nil" THEN opts ELSE Append(opts, OptWriteConcern(wc))

\* Acknowledged letting the last OptWriteConcern of the list decide
AcknowledgedLastMatch(opts) ==
    IF \E i \in 1..Len(opts) : IsOptWriteConcern(opts[i])
    THEN LET i == CHOOSE i \in 1..Len(opts) :
                    /\ IsOptWriteConcern(opts[i])
                    /\ \A j \in (i + 1)..Len(opts) : ~IsOptWriteConcern(opts[j])
         IN opts[i].Acknowledged
    ELSE TRUE

\* lines 53-61: the first OptWriteConcern of the list decides; none means acknowledged
Acknowledged(opts) ==
    IF \E i \in 1..Len(opts) : IsOptWriteConcern(opts[i])
    THEN LET i == CHOOSE i \in 1..Len(opts) :
                    /\ IsOptWriteConcern(opts[i])
                    /\ \A j \in 1..(i - 1) : ~IsOptWriteConcern(opts[j])
         IN opts[i].Acknowledged
    ELSE TRUE

\* a detached goroutine (lines 70-76): the connection it captured, whether the
\* context it captured is cancelled, where it is, and what its RoundTrip call did
Task(conn) ==
    [conn |-> conn, pc |-> "spawned", cancelled |-> FALSE,
     rts |-> 0, rt |-> "none", panicking |-> FALSE, recovered |-> FALSE]

FindAndModifyErr(e) == Ret("FindOneAndUpdate", FALSE, e, NoDoc)

\* FindOneAndUpdateOn with defer conn.Close() placed before the acknowledgement test:
\* the caller closes the connection it has handed to the goroutine
FindOneAndUpdateOnDeferFirst(s, opts, lg) ==
    LET cid == Len(conns) + 1
        lgc == Append(lg, Call("Connection", s, cid, 0, NoErr))
    IN
    {Called(conns, tasks, FindAndModifyErr(ConnectionError),
            Append(lg, Call("Connection", s, 0, 0, ConnectionError)))}
    \cup (IF cid > MaxConns THEN {}
          ELSE IF ~Acknowledged(opts)
          THEN {Called(Append(conns, CloseConn(Conn("task"), "call")),
                       Append(tasks, Task(cid)),
                       FindAndModifyErr(ErrUnacknowledgedWrite), lgc)}
          ELSE {Called(Append(conns, CloseConn(Conn("call"), "call")), tasks,
                       Ret("FindOneAndUpdate", e = NoErr, e, NoDoc),
                       Append(lgc, CallCmd("RoundTrip", s, cid, opts, e)))
                   : e \in RoundTripResults})

\* FindOneAndUpdateOn without the go statement: the caller makes the unacknowledged
\* round trip itself and returns the sentinel afterwards
FindOneAndUpdateOnWaiting(s, opts, lg) ==
    LET cid == Len(conns) + 1
        lgc == Append(lg, Call("Connection", s, cid, 0, NoErr))
    IN
    {Called(conns, tasks, FindAndModifyErr(ConnectionError),
            Append(lg, Call("Connection", s, 0, 0, ConnectionError)))}
    \cup (IF cid > MaxConns THEN {}
          ELSE IF ~Acknowledged(opts)
          THEN {Called(Append(conns, CloseConn(Conn("call"), "call")), tasks,
                       FindAndModifyErr(ErrUnacknowledgedWrite),
                       Append(lgc, CallCmd("RoundTrip", s, cid, opts, e)))
                   : e \in RoundTripResults}
          ELSE {Called(Append(conns, CloseConn(Conn("call"), "call")), tasks,
                       Ret("FindOneAndUpdate", e = NoErr, e, NoDoc),
                       Append(lgc, CallCmd("RoundTrip", s, cid, opts, e)))
                   : e \in RoundTripResults})

\* lines 63-81, on server s with the command's final option list
FindOneAndUpdateOn(s, opts, lg) ==
    LET cid == Len(conns) + 1
        lgc == Append(lg, Call("Connection", s, cid, 0, NoErr))
    IN
    {Called(conns, tasks, FindAndModifyErr(ConnectionError),
            Append(lg, Call("Connection", s, 0, 0, ConnectionError)))}
    \cup (IF cid > MaxConns THEN {}
          ELSE IF ~Acknowledged(opts)
          THEN {Called(Append(conns, Conn("task")), Append(tasks, Task(cid)),
                       FindAndModifyErr(ErrUnacknowledgedWrite), lgc)}
          ELSE {Called(Append(conns, CloseConn(Conn("call"), "call")), tasks,
                       Ret("FindOneAndUpdate", e = NoErr, e, NoDoc),
                       Append(lgc, CallCmd("RoundTrip", s, cid, opts, e)))
                   : e \in RoundTripResults})

\* lines 34-81
FindOneAndUpdateOutcomes(opts, wc) ==
    LET sel(s, e) == SelectServer("selector", s, e) IN
    {Called(conns, tasks, FindAndModifyErr(SelectionError), sel(NoServer, SelectionError))}
    \cup UNION {
        IF wc = "invalid"
        THEN {Called(conns, tasks, FindAndModifyErr(WriteConcernError),
                     Append(sel(s, NoErr), Call("writeConcernOption", s, 0, 0, WriteConcernError)))}
        ELSE FindOneAndUpdateOn(s, AppendWriteConcern(opts, wc), sel(s, NoErr))
        : s \in Servers}

FindOneAndUpdate ==
    \E opts \in CommandOpts, wc \in WriteConcerns :
        \E r \in FindOneAndUpdateOutcomes(opts, wc) :
            Return(Args(opts, wc, FALSE, "nil", "nil", "nil"), r)

(***************************************************************************)
(* The detached goroutine of an unacknowledged write (lines 70-76) and the *)
(* caller's context                                                        *)
(***************************************************************************)
\* line 75: RoundTrip is handed the caller's ctx; given a cancelled context it can
\* also fail with the context's error before the write is on the wire
TaskRoundTripResults(cancelled) ==
    {"returned", "panic"} \cup (IF cancelled THEN {"context canceled"} ELSE {})

\* line 75: _, _ = cmd.RoundTrip(ctx, desc, conn)
TaskRoundTrip(t) ==
    /\ ~crashed
    /\ t \in 1..Len(tasks)
    /\ tasks[t].pc = "spawned"
    /\ \E o \in TaskRoundTripResults(tasks[t].cancelled) :
          tasks' = [tasks EXCEPT ![t].pc = "deferred", ![t].rts = @ + 1,
                                 ![t].rt = o, ![t].panicking = (o = "panic")]
    /\ UNCHANGED <<csVars, conns, crashed, args, ret, log>>

\* TaskDeferred without the deferred recover(): a panic leaves the goroutine
TaskDeferredWithoutRecover(t, closePanics) ==
    [conns |-> [conns EXCEPT ![tasks[t].conn] = CloseConn(@, "task")],
     task |-> [tasks[t] EXCEPT !.pc = "done", !.panicking = FALSE],
     crashed |-> (tasks[t].panicking \/ closePanics)]

\* lines 71-74, run as the goroutine's function returns or panics: the deferred
\* conn.Close(), which may itself panic, then the deferred recover()
TaskDeferred(t, closePanics) ==
    [conns |-> [conns EXCEPT ![tasks[t].conn] = CloseConn(@, "task")],
     task |-> [tasks[t] EXCEPT !.pc = "done", !.panicking = FALSE,
                               !.recovered = (tasks[t].panicking \/ closePanics)],
     crashed |-> FALSE]

TaskExit(t) ==
    /\ ~crashed
    /\ t \in 1..Len(tasks)
    /\ tasks[t].pc = "deferred"
    /\ \E closePanics \in BOOLEAN :
          LET d == TaskDeferred(t, closePanics) IN
          /\ conns' = d.conns
          /\ tasks' = [tasks EXCEPT ![t] = d.task]
          /\ crashed' = d.crashed
    /\ UNCHANGED <<csVars, args, ret, log>>

\* the caller cancels the context it passed to a call that has returned
\* ErrUnacknowledgedWrite (or its deadline passes)
Cancel(t) ==
    /\ ~crashed
    /\ t \in 1..Len(tasks)
    /\ tasks[t].pc # "done"
    /\ ~tasks[t].cancelled
    /\ tasks' = [tasks EXCEPT ![t].cancelled = TRUE]
    /\ UNCHANGED <<csVars, conns, crashed, args, ret, log>>

(***************************************************************************)
(* IndexView (package mongo): index models and getOrGenerateIndexName      *)
(***************************************************************************)
ErrInvalidIndexValue == [kind |-> "ErrInvalidIndexValue", code |-> 0]
ErrNonStringIndexName == [kind |-> "ErrNonStringIndexName", code |-> 0]
ErrMultipleIndexDrop == [kind |-> "ErrMultipleIndexDrop", code |-> 0]
NilKeysError == [kind |-> "index model keys cannot be nil", code |-> 0]
ConcatError == [kind |-> "concat", code |-> 0]
UnbundleError == [kind |-> "unbundle", code |-> 0]
InvalidSessionError == [kind |-> "invalid session", code |-> 0]

\* an element of a bson document: its key, the type of its value and the value
ElemInt32(k, n) == [key |-> k, type |-> "int32", int |-> n, str |-> ""]
ElemInt64(k, n) == [key |-> k, type |-> "int64", int |-> n, str |-> ""]
ElemString(k, v) == [key |-> k, type |-> "string", int |-> 0, str |-> v]
ElemDouble(k) == [key |-> k, type |-> "double", int |-> 0, str |-> ""]

\* a *bson.Document: nil, or its elements in document order
NilDocument == [nil |-> TRUE, elems |-> <<>>]
Document(elems) == [nil |-> FALSE, elems |-> elems]

IndexModel(keys, opts) == [Keys |-> keys, Options |-> opts]

\* the index models a caller passes
IndexModels ==
    { IndexModel(Document(<<ElemInt32("a", 1), ElemString("b", "text")>>), NilDocument),
      IndexModel(Document(<<ElemInt32("a", -1)>>), Document(<<ElemString("unique", "true")>>)),
      IndexModel(Document(<<ElemInt64("b", 12), ElemInt32("a", 1)>>), NilDocument),
      IndexModel(Document(<<ElemInt32("a", 1), ElemDouble("b"), ElemInt32("c", 1)>>),
                 NilDocument),
      IndexModel(Document(<<ElemDouble("a")>>), Document(<<ElemString("name", "idx")>>)),
      IndexModel(Document(<<ElemInt32("a", 1)>>), Document(<<ElemInt32("name", 5)>>)),
      IndexModel(NilDocument, Document(<<ElemString("name", "idx")>>)),
      IndexModel(Document(<<>>), NilDocument) }

\* d.LookupErr(key): the first element with that key, or bson.ErrElementNotFound
HasElement(d, key) == \E i \in 1..Len(d.elems) : d.elems[i].key = key
LookupErr(d, key) ==
    d.elems[CHOOSE i \in 1..Len(d.elems) :
               /\ d.elems[i].key = key
               /\ \A j \in 1..(i - 1) : d.elems[j].key # key]

\* fmt.Sprintf("%d", n)
DecimalDigits == <<"0", "1", "2", "3", "4", "5", "6", "7", "8", "9">>
RECURSIVE FormatNat(_)
FormatNat(n) ==
    IF n < 10 THEN DecimalDigits[n + 1]
    ELSE FormatNat(n \div 10) \o DecimalDigits[(n % 10) + 1]
Sprintf(n) == IF n < 0 THEN "-" \o FormatNat(0 - n) ELSE FormatNat(n)

Named(name, e) == [name |-> name, err |-> e]

\* GenerateIndexName writing the separator before every key, the first included
RECURSIVE GenerateIndexNameSeparatorFirst(_, _, _, _)
GenerateIndexNameSeparatorFirst(elems, i, name, first) ==
    IF i > Len(elems) THEN Named(name, NoErr)
    ELSE LET elem == elems[i]
             head == name \o "_" \o elem.key \o "_"
         IN
         IF elem.type \in {"int32", "int64"}
         THEN GenerateIndexNameSeparatorFirst(elems, i + 1, head \o Sprintf(elem.int), FALSE)
         ELSE IF elem.type = "string"
         THEN GenerateIndexNameSeparatorFirst(elems, i + 1, head \o elem.str, FALSE)
         ELSE Named("", ErrInvalidIndexValue)

\* lines 350-397: the loop over the keys, from element i on, with the buffer and the
\* first flag as they stand
RECURSIVE GenerateIndexName(_, _, _, _)
GenerateIndexName(elems, i, name, first) ==
    IF i > Len(elems) THEN Named(name, NoErr)
    ELSE LET elem == elems[i]
             sep == IF first THEN name ELSE name \o "_"
             head == sep \o elem.key \o "_"
         IN
         IF elem.type \in {"int32", "int64"}
         THEN GenerateIndexName(elems, i + 1, head \o Sprintf(elem.int), FALSE)
         ELSE IF elem.type = "string"
         THEN GenerateIndexName(elems, i + 1, head \o elem.str, FALSE)
         ELSE Named("", ErrInvalidIndexValue)

\* lines 332-398
getOrGenerateIndexName(model) ==
    IF ~model.Options.nil /\ HasElement(model.Options, "name")
    THEN LET nameVal == LookupErr(model.Options, "name") IN
         IF nameVal.type # "string" THEN Named("", ErrNonStringIndexName)
         ELSE Named(nameVal.str, NoErr)
    ELSE GenerateIndexName(model.Keys.elems, 1, "", TRUE)

(***************************************************************************)
(* IndexView.CreateMany, CreateOne, DropOne, DropAll                       *)
(***************************************************************************)
\* the longest list of models passed to CreateMany
MaxModels == 2

RECURSIVE ModelLists(_)
ModelLists(n) ==
    IF n = 0 THEN {<<>>}
    ELSE ModelLists(n - 1)
            \cup {Append(l, m) : l \in {k \in ModelLists(n - 1) : Len(k) = n - 1},
                                 m \in IndexModels}

\* the names DropOne is called with
IndexNames == {"*", "a_1", ""}

\* an index named in a createIndexes or dropIndexes command
CmdIndex(name) == [name |-> "index", val |-> name, Acknowledged |-> TRUE]
CmdIndexes(names) == [i \in 1..Len(names) |-> CmdIndex(names[i])]

IndexArgs(name, models) == [name |-> name, models |-> models]

\* dispatch.CreateIndexes, dispatch.DropIndexes: a server is selected under the
\* given (write) selector, a connection is taken from it and closed when the call
\* returns, and the command makes one round trip
DispatchIndexCommand(op, cmd, lg) ==
    {Called(conns, tasks, Ret(op, FALSE, SelectionError, NoDoc),
            lg \o SelectServer("writeSelector", NoServer, SelectionError))}
    \cup UNION {ConnectRoundTrip(op, s, cmd, lg \o SelectServer("writeSelector", s, NoErr))
                   : s \in Servers}

\* BundleX(opts...).Unbundle(true), then client.ValidSession(sess), then the dispatch
UnbundleAndDispatch(op, cmd) ==
    LET unb(e) == <<Call("Unbundle", NoServer, 0, 0, e)>>
        val(e) == Append(unb(NoErr), Call("ValidSession", NoServer, 0, 0, e))
    IN
    {Called(conns, tasks, Ret(op, FALSE, UnbundleError, NoDoc), unb(UnbundleError)),
     Called(conns, tasks, Ret(op, FALSE, InvalidSessionError, NoDoc),
            val(InvalidSessionError))}
    \cup DispatchIndexCommand(op, cmd, val(NoErr))

\* lines 186-215: the loop over the models from model i on, names being the names
\* resolved so far; index.Concat(model.Options) can fail for a model with options
RECURSIVE ResolveNames(_, _, _)
ResolveNames(models, i, names) ==
    IF i > Len(models) THEN {Named(names, NoErr)}
    ELSE IF models[i].Keys.nil THEN {Named(<<>>, NilKeysError)}
    ELSE LET n == getOrGenerateIndexName(models[i]) IN
         IF n.err # NoErr THEN {Named(<<>>, n.err)}
         ELSE (IF models[i].Options.nil THEN {} ELSE {Named(<<>>, ConcatError)})
                 \cup ResolveNames(models, i + 1, Append(names, n.name))

\* lines 186-248
CreateManyOutcomes(op, models) ==
    UNION {
        IF n.err # NoErr
        THEN {Called(conns, tasks, Ret(op, FALSE, n.err, <<>>), <<>>)}
        ELSE {[r EXCEPT !.ret.doc = IF r.ret.err = NoErr THEN n.name ELSE <<>>]
                 : r \in UnbundleAndDispatch(op, CmdIndexes(n.name))}
        : n \in ResolveNames(models, 1, <<>>)}

CreateMany ==
    \E models \in ModelLists(MaxModels) :
        \E r \in CreateManyOutcomes("CreateMany", models) :
            Return(IndexArgs("", models), r)

\* lines 158-173: CreateMany with the one model
CreateOne ==
    \E model \in IndexModels :
        \E r \in CreateManyOutcomes("CreateOne", <<model>>) :
            Return(IndexArgs("", <<model>>), r)

\* DropOneOutcomes without the test for "*"
DropOneOutcomesUnchecked(name) == UnbundleAndDispatch("DropOne", <<CmdIndex(name)>>)

\* lines 261-292
DropOneOutcomes(name) ==
    IF name = "*"
    THEN {Called(conns, tasks, Ret("DropOne", FALSE, ErrMultipleIndexDrop, NoDoc), <<>>)}
    ELSE UnbundleAndDispatch("DropOne", <<CmdIndex(name)>>)

DropOne ==
    \E name \in IndexNames : \E r \in DropOneOutcomes(name) : Return(IndexArgs(name, <<>>), r)

\* lines 305-329
DropAll ==
    \E r \in UnbundleAndDispatch("DropAll", <<CmdIndex("*")>>) :
        Return(IndexArgs("*", <<>>), r)

(***************************************************************************)
(* MongoDBX509Authenticator.Auth (core/auth/x509.go)                       *)
(***************************************************************************)
MongoDBX509 == "MONGODB-X509"

\* the server versions and the user names Auth is called with
Version(major, minor) == [major |-> major, minor |-> minor]
Versions == {Version(major, minor) : major \in {2, 3, 4}, minor \in {0, 2, 4, 6}}
Users == {"", "CN=client", "CN=admin"}

\* desc.Version.AtLeast(major, minor)
AtLeast(v, major, minor) == v.major > major \/ (v.major = major /\ v.minor >= minor)

Field(k, v) == [name |-> k, val |-> v, Acknowledged |-> TRUE]

\* AuthRequestDoc appending the user field for every server version
AuthRequestDocAlwaysUser(user, v) ==
    <<Field("authenticate", "1"), Field("mechanism", MongoDBX509), Field("user", user)>>

\* lines 41-48
AuthRequestDoc(user, v) ==
    LET doc == <<Field("authenticate", "1"), Field("mechanism", MongoDBX509)>> IN
    IF ~AtLeast(v, 3, 4) THEN Append(doc, Field("user", user)) ELSE doc

\* command.Command{DB: db, Command: doc}
AuthCommand(db, doc) == <<Field("DB", db)>> \o doc

AuthArgs(user, v) == [user |-> user, version |-> v]

\* lines 36-66: one round trip on the connection being set up; its error is returned
Auth ==
    \E user \in Users, v \in Versions, e \in {NoErr, RoundTripError, NetworkError} :
        Return(AuthArgs(user, v),
               Called(conns, tasks, Ret("Auth", e = NoErr, e, NoDoc),
                      <<CallCmd("RoundTrip", NoServer, 0,
                                AuthCommand("$external", AuthRequestDoc(user, v)), e)>>))

(***************************************************************************)
(* Specifications                                                          *)
(***************************************************************************)
ChangeStreamStep ==
    \/ ChangeStreamNext
    \/ DecodeBytes
    \/ Decode
    \/ Err
    \/ Close
    \/ ID

DispatchStep ==
    \/ Command
    \/ ListIndexes
    \/ Find
    \/ Aggregate
    \/ FindOneAndUpdate
    \/ \E t \in 1..Len(tasks) : TaskRoundTrip(t)
    \/ \E t \in 1..Len(tasks) : TaskExit(t)
    \/ \E t \in 1..Len(tasks) : Cancel(t)

\* the change stream alone
\* lines 124-154: BundleList(opts...).Unbundle(true), client.ValidSession(sess), then
\* dispatch.ListIndexes (list_indexes.go 22-33) under the collection's write
\* selector; the cursor and the error of the dispatch are returned as they are
ListOutcomes ==
    LET unb(e) == <<Call("Unbundle", NoServer, 0, 0, e)>>
        val(e) == Append(unb(NoErr), Call("ValidSession", NoServer, 0, 0, e))
    IN
    {Called(conns, tasks, Ret("List", FALSE, UnbundleError, NoDoc), unb(UnbundleError)),
     Called(conns, tasks, Ret("List", FALSE, InvalidSessionError, NoDoc),
            val(InvalidSessionError)),
     Called(conns, tasks, Ret("List", FALSE, SelectionError, NoDoc),
            val(NoErr) \o SelectServer("writeSelector", NoServer, SelectionError))}
    \cup UNION {ConnectRoundTrip("List", s, <<>>,
                                 val(NoErr) \o SelectServer("writeSelector", s, NoErr))
                   : s \in Servers}

\* lines 115-155
List == \E r \in ListOutcomes : Return(IndexArgs("", <<>>), r)

IndexViewStep == List \/ CreateMany \/ CreateOne \/ DropOne \/ DropAll

SpecIndexView == Init /\ [][IndexViewStep]_vars

SpecAuth == Init /\ [][Auth]_vars

SpecChangeStream == Init /\ [][ChangeStreamStep]_vars

\* the dispatch functions and the goroutines they start
SpecDispatch == Init /\ [][DispatchStep]_vars

\* everything that takes or closes a connection: the dispatch functions, the
\* goroutines and the change stream's Next
SpecConnections == Init /\ [][ChangeStreamNext \/ DispatchStep]_vars

\* a started goroutine is scheduled: each of its steps is eventually taken
FairDispatch ==
    /\ SpecDispatch
    /\ \A t \in 1..MaxConns : WF_vars(TaskRoundTrip(t)) /\ WF_vars(TaskExit(t))

(***************************************************************************)
(* Properties of the change stream                                         *)
(***************************************************************************)
LogCount(name) == Cardinality({i \in 1..Len(log) : log[i].call = name})

\* the last call was a Next whose first advance ended with a terminal cursor error
FailedAdvance ==
    /\ ret.op = "Next"
    /\ Len(log) >= 2
    /\ log[2].call = "cursor.Err"
    /\ log[2].err # NoErr

\* a server-reported command error with code 10107 or 43
ResumableError(e) ==
    /\ e.kind = "command.Error"
    /\ e.code \in {errorCodeNotMaster, errorCodeCursorNotFound}

\* the resume positions a $changeStream options document carries
ResumePositions(doc) == {doc[i].val : i \in {j \in 1..Len(doc) : IsOptResumeAfter(doc[j])}}

\* C1: a Next whose cursor failed with code 10107 or 43 selects a server exactly once,
\* under the read selector; then takes one connection from that server; then issues
\* exactly one aggregate on that server and connection, whose first stage is the
\* stream's rewritten first stage and resumes after the last captured _id; then the
\* stream holds the new cursor, advanced exactly once, and Next returns what that
\* advance returned. Each step is taken when the one before it succeeded, and none
\* is taken twice.
C1_ResumeOncePerNext ==
    (FailedAdvance /\ ResumableError(log[2].err)) =>
        /\ Len(log) >= 3
        /\ log[3].call = "SelectServer(readSelector)"
        /\ LogCount("SelectServer(readSelector)") = 1
        /\ LogCount("Connection") <= 1
        /\ LogCount("aggregate") <= 1
        /\ LogCount("cursor.Next") <= 2
        /\ (log[3].err = NoErr) =>
              /\ Len(log) >= 4
              /\ log[4].call = "Connection"
              /\ log[4].srv = log[3].srv
        /\ (Len(log) >= 4 /\ log[4].err = NoErr) =>
              /\ Len(log) >= 6
              /\ log[6].call = "aggregate"
              /\ log[6].srv = log[3].srv
              /\ log[6].conn = log[4].conn
              /\ log[6].opts = pipeline[1].doc
              /\ (lastDecodedId # NoToken) => ResumePositions(log[6].opts) = {lastDecodedId}
        /\ (Len(log) >= 6 /\ log[6].err = NoErr) =>
              /\ Len(log) = 7
              /\ log[7].call = "cursor.Next"
              /\ log[7].cur = cursor.id
              /\ cursor.id # log[1].cur
              /\ cursor.srv = log[3].srv
              /\ ret.err = NoErr
              /\ ret.val = cursor.cur.present

\* a stream that had decoded a document resumed after code 10107 or 43 and the new
\* cursor's single advance produced a document
C1_Witness ==
    /\ FailedAdvance
    /\ ResumableError(log[2].err)
    /\ lastDecodedId # NoToken
    /\ Len(log) = 7
    /\ ret.val

\* C2: a Next whose cursor ended with any error other than a command error with code
\* 10107 or 43 (a command error with another code, or an error that is no command
\* error) makes no resume attempt: it calls nothing after cursor.Err, leaves the
\* options, the pipeline and the cursor as they were, returns false, and Err() then
\* returns that error.
C2_NoResumeOnOtherErrors ==
    [][ (FailedAdvance' /\ ~ResumableError(log'[2].err)) =>
            /\ Len(log') = 2
            /\ options' = options
            /\ pipeline' = pipeline
            /\ cursor'.id = cursor.id
            /\ ~ret'.val
            /\ ErrOf(err', cursor').err = log'[2].err ]_vars

\* C3: with no resume token stored, a Next whose cursor failed with code 10107 or 43
\* ends in the missing-resume-token failure and attempts no resume: the option list
\* gets no resume directive, no server is selected, no aggregate is issued.
C3_NoResumeWithoutToken ==
    [][ (FailedAdvance' /\ ResumableError(log'[2].err) /\ resumeToken = NoToken) =>
            /\ Len(log') = 2
            /\ options' = options
            /\ ~ret'.val
            /\ ErrOf(err', cursor').err = ErrMissingResumeToken ]_vars

\* C4: the stored resume token is absent until a document has been decoded and is
\* otherwise the _id of the document most recently read by DecodeBytes; a decode
\* that hands a document back has stored that document's _id already.
C4_ResumeTokenIsLastDecodedId ==
    /\ resumeToken = lastDecodedId
    /\ resumeToken \in Tokens \cup {NoToken}
    /\ (ret.op \in {"Decode", "DecodeBytes"} /\ ret.doc.present) => resumeToken = ret.doc.id

\* a document was decoded, then a later decode failed for want of an _id
C4_Witness ==
    /\ ret.op \in {"Decode", "DecodeBytes"}
    /\ ret.err = ErrMissingResumeToken
    /\ lastDecodedId # NoToken

\* C5: a decode whose document has no _id closes the stream's cursor and returns
\* ErrMissingResumeToken and no document.
C5_MissingIdClosesStream ==
    ( /\ ret.op \in {"Decode", "DecodeBytes"}
      /\ Len(log) >= 1
      /\ log[1].call = "cursor.DecodeBytes"
      /\ log[1].err = NoErr
      /\ ~cursor.cur.hasId ) =>
        /\ cursor.closed
        /\ Len(log) = 2
        /\ log[2].call = "cursor.Close"
        /\ log[2].cur = cursor.id
        /\ ret.err = ErrMissingResumeToken
        /\ ~ret.val
        /\ ~ret.doc.present

\* a document without _id has been decoded
C5_Witness ==
    /\ ret.op = "DecodeBytes"
    /\ Len(log) = 2
    /\ log[1].err = NoErr
    /\ ~cursor.nil
    /\ cursor.cur.present
    /\ ~cursor.cur.hasId

(***************************************************************************)
(* Properties of the dispatch functions                                    *)
(***************************************************************************)
TaskIds == 1..Len(tasks)
ConnIds == 1..Len(conns)

\* the last call was a FindOneAndUpdate that returned the sentinel
UnackReturned == ret.op = "FindOneAndUpdate" /\ ret.err = ErrUnacknowledgedWrite

\* the last call got a connection
ConnectionAcquired == \E i \in 1..Len(log) : log[i].call = "Connection" /\ log[i].err = NoErr

\* the write-concern options the caller put in the command, by position
ExplicitWriteConcerns(a) == {i \in 1..Len(a.opts) : IsOptWriteConcern(a.opts[i])}
FirstExplicit(a) ==
    a.opts[CHOOSE i \in ExplicitWriteConcerns(a) : \A j \in ExplicitWriteConcerns(a) : i <= j]

\* the acknowledgement the arguments call for: the explicit option's when there is
\* one, else the override's, else acknowledged
ExpectedAcknowledged(a) ==
    IF ExplicitWriteConcerns(a) # {} THEN FirstExplicit(a).Acknowledged
    ELSE a.wc # "w0"

\* C6: a connection is closed at most once and only by its owner; one taken by a
\* dispatch call or by a resume is closed once when the call has returned, on every
\* way out including a panic; one handed to a goroutine is never closed by the call
\* and is closed once when the goroutine has finished.
C6_ConnectionsClosedOnce ==
    /\ \A c \in ConnIds :
          /\ conns[c].closes <= 1
          /\ conns[c].closedBy \subseteq {conns[c].owner}
          /\ conns[c].owner \in {"call", "resume"} => conns[c].closes = 1
          /\ conns[c].owner = "task" =>
                /\ Cardinality({t \in TaskIds : tasks[t].conn = c}) = 1
                /\ \A t \in TaskIds :
                      tasks[t].conn = c => (conns[c].closes = 1 <=> tasks[t].pc = "done")
    /\ \A i \in 1..Len(log) :
          (log[i].call = "Connection" /\ log[i].err = NoErr) => log[i].conn \in ConnIds

\* the goroutine of an unacknowledged write has closed the connection it was given
C6_Witness ==
    \E c \in ConnIds : conns[c].owner = "task" /\ conns[c].closes = 1

\* C7: a FindOneAndUpdate that got a connection returns ErrUnacknowledgedWrite, with
\* an empty result and without having made the round trip, exactly when its
\* acknowledgement resolves to false; the round trip is then made by a goroutine
\* holding the connection taken from the selected server, never more than once, and
\* eventually once.
C7_UnacknowledgedReturnsAtOnce ==
    /\ [](/\ (ret.op = "FindOneAndUpdate" /\ ConnectionAcquired) =>
                (UnackReturned <=> ~ExpectedAcknowledged(args))
          /\ UnackReturned =>
                /\ ~ret.val
                /\ ~ret.doc.present
                /\ LogCount("RoundTrip") = 0
                /\ log[Len(log)].call = "Connection"
                /\ log[Len(log)].srv = log[1].srv
                /\ \E t \in TaskIds : tasks[t].conn = log[Len(log)].conn
          /\ \A t \in TaskIds :
                /\ tasks[t].rts <= 1
                /\ tasks[t].pc # "spawned" => tasks[t].rts = 1)
    /\ [][Len(tasks') > Len(tasks) =>
            /\ UnackReturned'
            /\ tasks'[Len(tasks')].pc = "spawned"
            /\ tasks'[Len(tasks')].rts = 0]_vars
    /\ \A t \in 1..MaxConns :
          (Len(tasks) >= t) ~> (Len(tasks) >= t /\ tasks[t].rts = 1 /\ tasks[t].pc = "done")

\* the sentinel has been returned and the goroutine has not made the round trip yet
C7_Witness ==
    /\ UnackReturned
    /\ \E t \in TaskIds : tasks[t].conn = log[Len(log)].conn /\ tasks[t].rts = 0

\* C8: when the command carries a write-concern option, that option decides whether
\* FindOneAndUpdate is acknowledged and is the first write concern of the command
\* sent, whatever override is passed; the override decides when the command carries
\* none; with neither the command is acknowledged.
C8_ExplicitWriteConcernWins ==
    (ret.op = "FindOneAndUpdate" /\ ConnectionAcquired) =>
        /\ UnackReturned <=> ~ExpectedAcknowledged(args)
        /\ \A i \in 1..Len(log) :
              log[i].call = "RoundTrip" =>
                 /\ ExpectedAcknowledged(args)
                 /\ ExplicitWriteConcerns(args) # {} =>
                       FirstExplicit(args) =
                          FirstExplicit([opts |-> log[i].opts])
                 /\ (ExplicitWriteConcerns(args) = {} /\ args.wc # "nil") =>
                       FirstExplicit([opts |-> log[i].opts]) = OptWriteConcern(args.wc)
                 /\ (ExplicitWriteConcerns(args) = {} /\ args.wc = "nil") =>
                       ExplicitWriteConcerns([opts |-> log[i].opts]) = {}

\* an acknowledged explicit option met an unacknowledged override and the call made
\* its round trip and returned the result
C8_Witness ==
    /\ ret.op = "FindOneAndUpdate"
    /\ ExplicitWriteConcerns(args) # {}
    /\ FirstExplicit(args).Acknowledged
    /\ args.wc = "w0"
    /\ ret.val

\* C9: after FindOneAndUpdate has returned ErrUnacknowledgedWrite, cancelling the
\* caller's context never cuts the goroutine's round trip short nor prevents it.
C9_CancelCannotAbort ==
    \A t \in TaskIds :
        /\ tasks[t].rt # "context canceled"
        /\ (tasks[t].cancelled /\ tasks[t].pc = "done") => tasks[t].rts = 1

\* C10: a panic in the goroutine, from the round trip or from Close, never leaves it:
\* the process goes on, what the call returned is untouched by the goroutine, and the
\* goroutine has closed its connection when it is done.
C10_PanicContained ==
    /\ [](/\ ~crashed
          /\ \A t \in TaskIds :
                tasks[t].pc = "done" =>
                   /\ ~tasks[t].panicking
                   /\ conns[tasks[t].conn].closes = 1
                   /\ conns[tasks[t].conn].closedBy = {"task"})
    /\ [][(Len(tasks') = Len(tasks) /\ tasks' # tasks) =>
             (ret' = ret /\ log' = log /\ args' = args)]_vars

\* a goroutine whose round trip panicked has finished
C10_Witness ==
    \E t \in TaskIds :
        tasks[t].pc = "done" /\ tasks[t].recovered /\ tasks[t].rt = "panic"

\* the server selections of the last call, by position in its log
Selections ==
    {i \in 1..Len(log) : log[i].call \in {"SelectServer(selector)",
                                          "SelectServer(readSelector)",
                                          "SelectServer(writeSelector)"}}

\* C11: an Aggregate whose session is inside a transaction and whose explicit read
\* preference is incompatible with it returns the usage error before any network
\* activity: no server has been selected and no connection has been taken.
C11_UsageErrorBeforeNetwork ==
    (ret.op = "Aggregate" /\ ret.err = ReadPrefUsageError) =>
        /\ args.session = "transaction"
        /\ Selections = {}
        /\ LogCount("Connection") = 0

\* C12: Aggregate selects a server exactly once per call, first of all, under the
\* write selector when the pipeline has a $out stage and under the read selector
\* when it has none.
C12_DollarOutUsesWriteSelector ==
    ret.op = "Aggregate" =>
        /\ Cardinality(Selections) = 1
        /\ log[1].call = (IF args.dollarOut THEN "SelectServer(writeSelector)"
                                            ELSE "SelectServer(readSelector)")

\* an aggregate with a $out stage has made its round trip on the selected server
C12_Witness ==
    /\ ret.op = "Aggregate"
    /\ args.dollarOut
    /\ ret.val
    /\ log[1].call = "SelectServer(writeSelector)"

\* the sessions carried by the commands the last call sent
SentSessions == {log[i].opts[1].val : i \in {j \in 1..Len(log) : log[j].call = "RoundTrip"}}

\* C19: Aggregate starts an implicit session, at most one per call, exactly when the
\* command carries no session and the topology supports sessions, and sends the
\* command with it; a session the caller supplied is sent as it is and no session is
\* started; when starting the session fails that error is returned and nothing is
\* sent.
C19_ImplicitSession ==
    ret.op = "Aggregate" =>
        /\ LogCount("NewClientSession") <= 1
        /\ args.session # "nil" =>
              /\ LogCount("NewClientSession") = 0
              /\ SentSessions \subseteq {args.session}
        /\ (args.session = "nil" /\ ConnectionAcquired) =>
              /\ LogCount("SupportsSessions=true") + LogCount("SupportsSessions=false") = 1
              /\ LogCount("NewClientSession") = LogCount("SupportsSessions=true")
              /\ LogCount("SupportsSessions=false") = 1 => SentSessions \subseteq {"nil"}
        /\ \A i \in 1..Len(log) :
              log[i].call = "NewClientSession" =>
                 IF log[i].err = NoErr
                 THEN /\ LogCount("RoundTrip") = 1
                      /\ SentSessions = {"implicit"}
                 ELSE /\ ret.err = log[i].err
                      /\ LogCount("RoundTrip") = 0

\* an aggregate without a session was sent with an implicit one
C19_Witness ==
    /\ ret.op = "Aggregate"
    /\ args.session = "nil"
    /\ SentSessions = {"implicit"}
    /\ ret.val

DispatchOps == {"Command", "Find", "ListIndexes", "Aggregate", "FindOneAndUpdate"}

\* the last dispatch call failed to select a server or to get a connection
SelectionOrConnectionFailed ==
    /\ ret.op \in DispatchOps
    /\ \E i \in 1..Len(log) :
          /\ log[i].call = "Connection" \/ i \in Selections
          /\ log[i].err # NoErr

\* C20: a dispatch function selects a server once, asks for a connection at most
\* once and makes at most one round trip; when the selection fails it returns the
\* selection's error having asked for no connection and sent nothing; when the
\* connection fails it returns the connection's error having sent nothing; a round
\* trip's error is returned as it is. A failed call leaves no connection and no
\* goroutine behind.
C20_FailuresReturnedAtOnce ==
    /\ [](ret.op \in DispatchOps =>
            /\ Selections = {1}
            /\ LogCount("Connection") <= 1
            /\ LogCount("RoundTrip") <= 1
            /\ log[1].err # NoErr => (Len(log) = 1 /\ ~ret.val /\ ret.err = log[1].err)
            /\ \A i \in 1..Len(log) :
                  /\ (log[i].call = "Connection" /\ log[i].err # NoErr) =>
                        (i = Len(log) /\ ~ret.val /\ ret.err = log[i].err)
                  /\ log[i].call = "RoundTrip" =>
                        (i = Len(log) /\ ret.err = log[i].err))
    /\ [][SelectionOrConnectionFailed' =>
             (Len(conns') = Len(conns) /\ Len(tasks') = Len(tasks))]_vars

\* a Find has failed to get a connection from the server it selected
C20_Witness ==
    /\ ret.op = "Find"
    /\ Len(log) = 2
    /\ log[1].err = NoErr
    /\ log[2].call = "Connection"
    /\ log[2].err = ConnectionError
    /\ ret.err = ConnectionError

(***************************************************************************)
(* Properties of the change stream's resume and life cycle                 *)
(***************************************************************************)
\* C15: in a resume, killCursors for the dead cursor id goes to the server that
\* owned the dead cursor, before a server is selected again, and the aggregate is
\* reissued whatever killCursors returned.
C15_KillCursorsOnPreviousServer ==
    ret.op = "Next" =>
        \A i \in 1..Len(log) :
            log[i].call = "killCursors" =>
               /\ log[i].cur = log[1].cur
               /\ log[i].srv = log[1].srv
               /\ \A j \in Selections : i < j
               /\ i < Len(log)
               /\ log[i + 1].call = "aggregate"

\* the resume directives of an option list, by position, and its other options
ResumeDirectives(opts) == {i \in 1..Len(opts) : IsOptResumeAfter(opts[i])}
NonResumeOptions(opts) == SelectSeq(opts, LAMBDA o : ~IsOptResumeAfter(o))

\* the last call was a Next that went into the resume code
ResumeAttempted == ret.op = "Next" /\ Selections # {}

\* C16: the option list never holds more than one resume directive; after a resume
\* it holds exactly one, carrying the token the resume used; a resume overwrites the
\* directive where it stands, or appends one when there is none, and leaves every
\* other option and their order as they were.
C16_OneResumeDirective ==
    /\ [](/\ Cardinality(ResumeDirectives(options)) <= 1
          /\ ResumeAttempted =>
                \E i \in ResumeDirectives(options) : options[i].val = resumeToken)
    /\ [][/\ NonResumeOptions(options') = NonResumeOptions(options)
          /\ options' # options =>
                IF ResumeDirectives(options) # {}
                THEN ResumeDirectives(options') = ResumeDirectives(options)
                ELSE options' = Append(options, OptResumeAfter(resumeToken))]_vars

\* a stream created with a resume directive has decoded a document with another _id
\* and resumed: the directive stands where it stood and carries the new token
C16_Witness ==
    /\ ResumeAttempted
    /\ Len(options) = 3
    /\ options[2] = OptResumeAfter(2)
    /\ resumeToken = 2

\* C17: the pipeline's first element is its only $changeStream stage and the stages
\* after it are the caller's, in their order: no call changes the pipeline's length
\* or any stage but the first, and a resume that reissues the aggregate has written
\* the current option list into the first stage.
C17_PipelineShape ==
    /\ [](/\ Len(pipeline) >= 1
          /\ pipeline[1].stage = "$changeStream"
          /\ \A i \in 2..Len(pipeline) : pipeline[i].stage # "$changeStream"
          /\ (ret.op = "Next" /\ LogCount("aggregate") = 1) =>
                pipeline[1] = ChangeStreamStage(options))
    /\ [][Len(pipeline') = Len(pipeline) /\ Tail(pipeline') = Tail(pipeline)]_vars

\* a stream with two stages of the caller's has resumed and its first stage now
\* resumes after the _id decoded last
C17_Witness ==
    /\ ret.op = "Next"
    /\ LogCount("aggregate") = 1
    /\ Len(pipeline) = 3
    /\ ResumePositions(pipeline[1].doc) = {2}
    /\ pipeline[2] = UserStage("$match")

\* the stream has ended with an error that does not allow a resume
Failed == ~cursor.nil /\ cursor.err # NoErr /\ ~ResumableError(cursor.err)

\* C18: once the stream's cursor has been closed (by Close or by a decode that found
\* no _id) or has ended with a non-resumable error, a Next returns false, selects no
\* server, issues no aggregate and leaves the stream with the cursor it had.
C18_ClosedAndFailedAreTerminal ==
    [][((cursor.closed \/ Failed) /\ ret'.op = "Next") =>
          /\ ~ret'.val
          /\ Selections' = {}
          /\ LogCount("aggregate")' = 0
          /\ cursor'.id = cursor.id
          /\ cursor'.closed = cursor.closed]_vars

(***************************************************************************)
(* Properties of the index view                                            *)
(***************************************************************************)
\* the commands the last call sent, each as the list of indexes it names
SentIndexes == {log[i].opts : i \in {j \in 1..Len(log) : log[j].call = "RoundTrip"}}

\* C13: DropOne with the name "*" returns ErrMultipleIndexDrop having called nothing:
\* no option unbundling, no session validation, no server selection, no connection,
\* no round trip. With any other name it never returns that error, and once the
\* options are unbundled and the session is valid it dispatches one dropIndexes
\* command, which names exactly that index.
C13_DropOneRefusesStar ==
    ret.op = "DropOne" =>
        IF args.name = "*"
        THEN /\ ret.err = ErrMultipleIndexDrop
             /\ ~ret.val
             /\ log = <<>>
        ELSE /\ ret.err # ErrMultipleIndexDrop
             /\ Len(log) >= 1
             /\ log[1].call = "Unbundle"
             /\ (Len(log) >= 2 /\ log[2].err = NoErr) =>
                   /\ Selections = {3}
                   /\ log[3].call = "SelectServer(writeSelector)"
             /\ LogCount("RoundTrip") <= 1
             /\ SentIndexes \subseteq {<<CmdIndex(args.name)>>}
             /\ ret.val => SentIndexes # {}

\* DropOne has refused the name "*"
C13_Witness ==
    /\ ret.op = "DropOne"
    /\ args.name = "*"
    /\ ret.err = ErrMultipleIndexDrop

\* the decimal form of the integers the index models use
Decimal(n) == CASE n = 1 -> "1" [] n = -1 -> "-1" [] n = 12 -> "12"

RECURSIVE JoinWithUnderscore(_)
JoinWithUnderscore(parts) ==
    IF parts = <<>> THEN ""
    ELSE IF Len(parts) = 1 THEN parts[1]
    ELSE JoinWithUnderscore(SubSeq(parts, 1, Len(parts) - 1)) \o "_" \o parts[Len(parts)]

\* the name an index model is to get: its name option when it has one, which must be
\* a string; otherwise its keys, each as key_value, joined by "_", where a value is
\* an int32, an int64 or a string
ExpectedName(model) ==
    LET keys == model.Keys.elems
        named == {i \in 1..Len(model.Options.elems) : model.Options.elems[i].key = "name"}
    IN
    IF named # {}
    THEN LET e == model.Options.elems[CHOOSE i \in named : \A j \in named : i <= j] IN
         IF e.type = "string" THEN Named(e.str, NoErr) ELSE Named("", ErrNonStringIndexName)
    ELSE IF \E i \in 1..Len(keys) : keys[i].type \notin {"int32", "int64", "string"}
    THEN Named("", ErrInvalidIndexValue)
    ELSE Named(JoinWithUnderscore(
                  [i \in 1..Len(keys) |->
                      keys[i].key \o "_" \o (IF keys[i].type = "string" THEN keys[i].str
                                             ELSE Decimal(keys[i].int))]),
               NoErr)

\* what is wrong with an index model, if anything
ModelError(model) == IF model.Keys.nil THEN NilKeysError ELSE ExpectedName(model).err

\* C14: CreateMany and CreateOne give every model the name ExpectedName describes
\* ({a: 1, b: "text"} gets "a_1_b_text"): those are the names in the command sent and
\* the names returned. When a model has nil keys, a key value of another type or a
\* name option that is no string, the call returns the first such model's error
\* (or an earlier model's options failed to merge) and has called nothing.
C14_IndexNames ==
    ret.op \in {"CreateMany", "CreateOne"} =>
        LET ms == args.models
            bad == {i \in 1..Len(ms) : ModelError(ms[i]) # NoErr}
            names == [i \in 1..Len(ms) |-> ExpectedName(ms[i]).name]
        IN
        /\ bad # {} =>
              /\ ret.err \in {ModelError(ms[CHOOSE i \in bad : \A j \in bad : i <= j]),
                              ConcatError}
              /\ ~ret.val
        /\ ret.err \in {NilKeysError, ErrInvalidIndexValue, ErrNonStringIndexName,
                        ConcatError} => log = <<>>
        /\ SentIndexes \subseteq {CmdIndexes(names)}
        /\ ret.err = NoErr =>
              /\ ret.doc = names
              /\ SentIndexes # {}
        /\ ( /\ Len(ms) >= 1
             /\ ms[1] = IndexModel(Document(<<ElemInt32("a", 1), ElemString("b", "text")>>),
                                   NilDocument)
             /\ ret.err = NoErr ) => ret.doc[1] = "a_1_b_text"

\* CreateMany has created an index named after its keys and one named by its option
C14_Witness ==
    /\ ret.op = "CreateMany"
    /\ ret.err = NoErr
    /\ ret.doc = <<"a_1_b_text", "idx">>

(***************************************************************************)
(* Properties of the write-concern override, of the X.509 authenticator    *)
(* and of the stream's cursor                                              *)
(***************************************************************************)
\* C21: FindOneAndUpdate adds the write-concern override to the command's options
\* only when the command carries no write-concern option of its own: the command
\* sent has at most one write-concern option more than the caller's, and one that
\* came with a write-concern option is sent with the caller's options as they were.
C21_OverrideOnlyWithoutExplicit ==
    ret.op = "FindOneAndUpdate" =>
        \A i \in 1..Len(log) :
            log[i].call = "RoundTrip" =>
               /\ Cardinality(ExplicitWriteConcerns([opts |-> log[i].opts]))
                     <= Cardinality(ExplicitWriteConcerns(args)) + 1
               /\ ExplicitWriteConcerns(args) # {} => log[i].opts = args.opts

\* the fields of the command the last call sent, by name
SentFields(name) == {i \in 1..Len(log[1].opts) : log[1].opts[i].name = name}

\* C22: Auth makes exactly one round trip, of an authenticate command with the
\* MONGODB-X509 mechanism on the database "$external"; the command has the user
\* field, holding the authenticator's user, exactly when the server's version is
\* below 3.4; Auth returns nil when the round trip succeeded and the round trip's
\* error otherwise.
C22_X509OneRoundTrip ==
    ret.op = "Auth" =>
        /\ Len(log) = 1
        /\ log[1].call = "RoundTrip"
        /\ log[1].opts[1] = Field("DB", "$external")
        /\ log[1].opts[2] = Field("authenticate", "1")
        /\ log[1].opts[3] = Field("mechanism", MongoDBX509)
        /\ IF args.version.major < 3 \/ (args.version.major = 3 /\ args.version.minor < 4)
           THEN /\ Len(log[1].opts) = 4
                /\ log[1].opts[4] = Field("user", args.user)
           ELSE /\ Len(log[1].opts) = 3
                /\ SentFields("user") = {}
        /\ ret.err = log[1].err
        /\ ret.val <=> log[1].err = NoErr

\* a 3.4 server was sent the command without the user field and accepted it
C22_Witness ==
    /\ ret.op = "Auth"
    /\ args.version = Version(3, 4)
    /\ SentFields("user") = {}
    /\ ret.err = NoErr

\* C23: the stream always holds a cursor: no call, a resume that failed at the
\* selection, at the connection or at the reissued aggregate included, leaves it
\* without one, so ID, Next, Err and Close always have a cursor to call.
C23_CursorNeverNil == ~cursor.nil

====
